---- MODULE Spec2Model ----
(***************************************************************************)
(* GeoAgent HyperModal job queue (BullMQ queue "geoagent-hypermodal"), its *)
(* worker (processJob and the five modality processors) and the job        *)
(* management routes.  The job store is the BullMQ queue the code          *)
(* configures: the options the code passes (jobId, priority, attempts,     *)
(* backoff, concurrency, stalledInterval, maxStalledCount) select the      *)
(* BullMQ v5 behaviour that the actions below follow.                      *)
(***************************************************************************)
EXTENDS Integers, Sequences, FiniteSets, TLC

\* ------------------------------------------------------------------ bounds
MaxJobs == 2          \* job ids 1..MaxJobs
NumSlots == 2         \* concurrency slots of the worker (WORKER_CONCURRENCY)
MaxLost == 1          \* lock losses (worker crashes, expired locks) in one run
MaxStalls == 4        \* lock losses in one run of the stalled-job specification
TickMs == 2500        \* the step of the clock, in ms
MaxTime == 30000      \* the clock stops here

\* -------------------------------------------------------- program constants
attempts == 3         \* addJob: attempts: 3
maxStalledCount == 2  \* Worker option maxStalledCount
backoffDelay == 5000  \* addJob: backoff: {type: 'exponential', delay: 5000}

JobIds == 1..MaxJobs
Slots == 1..NumSlots
NoJobId == 0

\* the job and the slot that the single-job specifications follow
RunJob == 1
RunSlot == 1

\* the priority the ingest routes pass to addJob
IngestPriority == 5

VARIABLES
  jobs,         \* job id -> job record of the queue (state "absent": no such key)
  wait,         \* the wait list: jobs served before the prioritized set
  prioritized,  \* the prioritized set, in serving order
  slots,        \* slot -> [job, lock]: the job a concurrency slot runs, and whether it still owns the job's lock
  cancelling,   \* the job id a cancelJob call has read and not yet removed (0: none)
  reply,        \* the answer of the API call made by the last step
  lost,         \* lock losses so far
  run,          \* the processJob call that is followed step by step (block "idle": none)
  now,          \* the clock of the queue, in ms
  minio,        \* the objects of the MinIO server: records [bucket, key, bytes]
  bucketEnv,    \* MINIO_BUCKET in the environment of the API ("" when not set)
  io,           \* the last call made to a MinIOClient and what it returned
  admitted,     \* the job data the lidar routes have passed to addJob, in order
  stats,        \* the getQueueStats call in progress: the counts read so far
  redis,        \* QueueService: the record stored under job:<id>
  upd,          \* QueueService: the updateJob call of each caller
  activeSessions, \* GeoAgentWebSocketServer.activeSessions: tenant -> session ids
  connected     \* the sockets Socket.IO has accepted: id, tenant, still open

queueVars == <<jobs, wait, prioritized, slots, cancelling, reply, lost, run, now>>
blobVars == <<minio, bucketEnv, io, admitted>>
serviceVars == <<stats, redis, upd, activeSessions, connected>>
apiVars ==
  <<minio, bucketEnv, io, admitted, stats, redis, upd, activeSessions, connected>>

vars ==
  <<jobs, wait, prioritized, slots, cancelling, reply, lost, run, now,
    minio, bucketEnv, io, admitted,
    stats, redis, upd, activeSessions, connected>>

\* ------------------------------------------------------------ blob references
\* A path or reference is the sequence of its parts, e.g. raw/J1/a.las is
\* <<"raw", "/", "J1", "/", "a.las">>.
Scheme == "minio://"
DefaultBucket == "geoagent-hypermodal"

NoIo == [up |-> "none", down |-> "none", op |-> "none", ref |-> <<>>, sent |-> "", got |-> ""]

\* nothing stored, MINIO_BUCKET not set, no call made, no job admitted
BlobIdle ==
  /\ minio = {}
  /\ bucketEnv = ""
  /\ io = NoIo
  /\ admitted = <<>>

\* no getQueueStats call has been made
NoStats == [pc |-> 0, n0 |-> 0, counts |-> <<>>]

\* QueueService: the ids of job records, the callers of updateJob
RecordIds == {"job_1", "job_2"}
Callers == {"c1", "c2"}
NoRecord == [exists |-> FALSE, status |-> "", progress |-> ""]
NoUpdate == [pc |-> "idle", id |-> "", field |-> "", value |-> "", job |-> NoRecord]

\* no job record stored, no updateJob call made, no socket connected
ServiceIdle ==
  /\ stats = NoStats
  /\ redis = [id \in RecordIds |-> NoRecord]
  /\ upd = [c \in Callers |-> NoUpdate]
  /\ activeSessions = [t \in {} |-> {}]
  /\ connected = {}

\* the state of the API-side services before any request
ApiInit == BlobIdle /\ ServiceIdle

\* ---------------------------------------------------------------- job data
\* HyperModalJobData as the worker reads it: jobType, operation, the number of
\* source urls the SAR processor finds in job.data.sourceUrls, the options of
\* a lidar "process" job and whether the compute result carries an image.
JobData(t, op, n, cls, elev, img) ==
  [jobType |-> t, operation |-> op, nInputs |-> n,
   classify |-> cls, elevation |-> elev, image |-> img]

NoData == JobData("none", "none", 0, FALSE, FALSE, FALSE)

AllJobData ==
  { JobData("lidar", "process", 1, FALSE, TRUE, FALSE),
    JobData("lidar", "process", 1, TRUE, TRUE, FALSE),
    JobData("lidar", "process", 1, FALSE, FALSE, FALSE),
    JobData("lidar", "ingest", 1, FALSE, FALSE, FALSE),
    JobData("lidar", "classify", 1, FALSE, FALSE, FALSE),
    JobData("spectral", "unmix", 1, FALSE, FALSE, FALSE),
    JobData("spectral", "identify", 1, FALSE, FALSE, FALSE),
    JobData("spectral", "vegetation", 1, FALSE, FALSE, TRUE),
    JobData("spectral", "vegetation", 1, FALSE, FALSE, FALSE),
    JobData("spectral", "minerals", 1, FALSE, FALSE, FALSE),
    JobData("spectral", "water_quality", 1, FALSE, FALSE, FALSE),
    JobData("spectral", "ingest", 1, FALSE, FALSE, FALSE),
    JobData("sar", "interferometry", 0, FALSE, FALSE, FALSE),
    JobData("sar", "interferometry", 1, FALSE, FALSE, FALSE),
    JobData("sar", "interferometry", 2, FALSE, FALSE, FALSE),
    JobData("sar", "coherence", 1, FALSE, FALSE, FALSE),
    JobData("sar", "coherence", 2, FALSE, FALSE, FALSE),
    JobData("sar", "change_detection", 1, FALSE, FALSE, FALSE),
    JobData("sar", "change_detection", 2, FALSE, FALSE, FALSE),
    JobData("sar", "change", 2, FALSE, FALSE, FALSE),
    JobData("thermal", "heatmap", 1, FALSE, FALSE, TRUE),
    JobData("thermal", "heatmap", 1, FALSE, FALSE, FALSE),
    JobData("thermal", "anomaly_detection", 1, FALSE, FALSE, TRUE),
    JobData("thermal", "temperature_extract", 1, FALSE, FALSE, FALSE),
    JobData("thermal", "anomaly", 1, FALSE, FALSE, FALSE),
    JobData("fusion", "multimodal", 2, FALSE, FALSE, FALSE),
    JobData("fusion", "multimodal", 1, FALSE, FALSE, FALSE),
    JobData("fusion", "report", 1, FALSE, FALSE, FALSE),
    JobData("video", "process", 1, FALSE, FALSE, FALSE) }

\* ----------------------------------------------------------- pipeline steps
\* A processor is the sequence of steps its code performs, in order.  kind is
\* "progress" (job.updateProgress(n)), "download" / "writeFile" / "unlink" of
\* input n, "compute" (ML service call), "upload" of path s, "index" (GraphRAG
\* store call) or "throw" (throw new Error(s)).
Step(k, n, s) == [kind |-> k, n |-> n, s |-> s]
Progress(n) == Step("progress", n, "")
Download(i) == Step("download", i, "")
WriteFile(i) == Step("writeFile", i, "")
Unlink(i) == Step("unlink", i, "")
Compute == Step("compute", 0, "")
Upload(path) == Step("upload", 0, path)
Index == Step("index", 0, "")
Throw(msg) == Step("throw", 0, msg)

\* variant: the inputs of an earlier attempt are taken as already fetched
FetchAll_reuse(i, n) == <<>>

RECURSIVE FetchAll(_, _)
FetchAll(i, n) ==
  IF i > n THEN <<>> ELSE <<Download(i), WriteFile(i)>> \o FetchAll(i + 1, n)

RECURSIVE UnlinkAll(_, _)
UnlinkAll(i, n) ==
  IF i > n THEN <<>> ELSE <<Unlink(i)>> \o UnlinkAll(i + 1, n)

\* variant: the two checkpoints in the opposite order
handleLiDARIngestion_descending == <<Progress(100), Progress(50)>>

handleLiDARIngestion == <<Progress(50), Progress(100)>>

handleLiDARProcessing(d) ==
  <<Progress(10), Download(1), Progress(20), WriteFile(1), Progress(30)>>
  \o (IF d.classify THEN <<Compute, Progress(60)>> ELSE <<>>)
  \o (IF d.elevation THEN <<Progress(80)>> ELSE <<>>)
  \o <<Upload("processed/<jobId>/results.json"), Progress(90), Index,
       Progress(100), Unlink(1)>>

processLiDARJob(d) ==
  <<Progress(10)>>
  \o (IF d.operation = "ingest" THEN handleLiDARIngestion
      ELSE IF d.operation = "process" THEN handleLiDARProcessing(d)
      ELSE <<Throw("Unknown LiDAR operation")>>)

SpectralOutput(op) ==
  CASE op = "unmix" -> "processed/<jobId>/unmixing_results.json"
    [] op = "identify" -> "processed/<jobId>/materials_results.json"
    [] op = "vegetation" -> "processed/<jobId>/vegetation_results.json"
    [] op = "minerals" -> "processed/<jobId>/mineral_results.json"
    [] OTHER -> "processed/<jobId>/water_quality_results.json"

SpectralOperations == {"unmix", "identify", "vegetation", "minerals", "water_quality"}

\* handleUnmixing, handleMaterialIdentification, handleVegetationAnalysis,
\* handleMineralMapping, handleWaterQualityAnalysis
handleSpectral(d) ==
  <<Progress(30), Compute, Progress(70), Upload(SpectralOutput(d.operation))>>
  \o (IF d.operation = "vegetation" /\ d.image
        THEN <<Upload("processed/<jobId>/ndvi.png")>> ELSE <<>>)
  \o <<Index, Progress(100)>>

processSpectralJob(d) ==
  <<Progress(10), Download(1), WriteFile(1), Progress(20)>>
  \o (IF d.operation \in SpectralOperations
        THEN handleSpectral(d) \o <<Unlink(1)>>
        ELSE <<Throw("Unknown spectral operation")>>)

SAROperations == {"interferometry", "coherence", "change_detection"}

SARTooFew(op) ==
  CASE op = "interferometry" -> "Interferometry requires at least 2 SAR images"
    [] op = "coherence" -> "Coherence calculation requires at least 2 SAR images"
    [] OTHER -> "Change detection requires at least 2 SAR images"

processSARJob(d) ==
  <<Progress(10)>> \o FetchAll(1, d.nInputs) \o <<Progress(30)>>
  \o (IF d.operation \notin SAROperations THEN <<Throw("Unknown SAR operation")>>
      ELSE IF d.nInputs < 2 THEN <<Throw(SARTooFew(d.operation))>>
      ELSE <<Compute, Index, Progress(80)>> \o UnlinkAll(1, d.nInputs)
           \o <<Progress(100)>>)

ThermalOperations == {"heatmap", "anomaly_detection", "temperature_extract"}

ThermalOutput(op) ==
  CASE op = "heatmap" -> "processed/<jobId>/heatmap.png"
    [] op = "anomaly_detection" -> "processed/<jobId>/anomaly_map.png"
    [] OTHER -> "processed/<jobId>/temperatures.json"

\* handleHeatmap, handleAnomalyDetection (upload only when the result carries
\* the image), handleTemperatureExtraction (always uploads)
handleThermal(d) ==
  <<Progress(30), Compute, Progress(70)>>
  \o (IF d.operation = "temperature_extract" \/ d.image
        THEN <<Upload(ThermalOutput(d.operation))>> ELSE <<>>)
  \o <<Index, Progress(100)>>

processThermalJob(d) ==
  <<Progress(10), Download(1), WriteFile(1), Progress(20)>>
  \o (IF d.operation \in ThermalOperations
        THEN handleThermal(d) \o <<Unlink(1)>>
        ELSE <<Throw("Unknown thermal operation")>>)

\* variant: the placeholder returns without the final progress report
processFusionJob_unfinished(d) == <<Progress(50)>>

processFusionJob(d) == <<Progress(50), Progress(100)>>

\* variant: a type the switch does not list is run as a fusion job
Plan_fallback(d) ==
  CASE d.jobType = "lidar" -> processLiDARJob(d)
    [] d.jobType = "spectral" -> processSpectralJob(d)
    [] d.jobType = "sar" -> processSARJob(d)
    [] d.jobType = "thermal" -> processThermalJob(d)
    [] OTHER -> processFusionJob(d)

\* processJob's switch on jobType
Plan(d) ==
  CASE d.jobType = "lidar" -> processLiDARJob(d)
    [] d.jobType = "spectral" -> processSpectralJob(d)
    [] d.jobType = "sar" -> processSARJob(d)
    [] d.jobType = "thermal" -> processThermalJob(d)
    [] d.jobType = "fusion" -> processFusionJob(d)
    [] OTHER -> <<Throw("Unknown job type: " \o d.jobType)>>

\* ------------------------------------------------------ running a processor
\* The external call that fails during one attempt (none, or one call).
Fault(k, n) == [kind |-> k, n |-> n]
NoFault == Fault("none", 0)
Faults ==
  { NoFault, Fault("download", 1), Fault("download", 2), Fault("compute", 0),
    Fault("upload", 0), Fault("index", 0), Fault("unlink", 1) }

FaultMessage(f) ==
  CASE f.kind = "download" -> "minio: getObject failed"
    [] f.kind = "compute" -> "ml-service: request failed"
    [] f.kind = "upload" -> "minio: putObject failed"
    [] f.kind = "index" -> "graphrag: request failed"
    [] OTHER -> "fs: unlink failed"

Swallowed_never(step) == FALSE

\* fs.unlink(...).catch(...) : the rejection never leaves the call
Swallowed(step) == step.kind = "unlink"

\* A step rejects when it is a throw statement or the awaited call that fails.
Rejects(step, f) ==
  \/ step.kind = "throw"
  \/ step.kind = f.kind /\ step.n = f.n /\ ~Swallowed(step)

FailIndex(plan, f) ==
  LET bad == { i \in 1..Len(plan) : Rejects(plan[i], f) }
  IN IF bad = {} THEN 0 ELSE CHOOSE i \in bad : \A k \in bad : i <= k

\* catch block of handleLiDARProcessing: unlink the temp file, rethrow; the
\* other processors' catch blocks only log and rethrow.
CatchSteps(d) ==
  IF d.jobType = "lidar" /\ d.operation = "process" THEN <<Unlink(1)>> ELSE <<>>

NoResult == [jobId |-> NoJobId, operation |-> "", outputPaths |-> <<>>]

\* the object each processor returns
OutputPaths(d) ==
  CASE d.jobType = "lidar" /\ d.operation = "ingest" -> <<"sourceUrl">>
    [] d.jobType = "lidar" -> <<"processed/<jobId>/results.json">>
    [] d.jobType = "spectral" -> <<SpectralOutput(d.operation)>>
    [] d.jobType = "thermal" ->
         IF d.operation = "temperature_extract" \/ d.image
           THEN <<ThermalOutput(d.operation)>> ELSE <<>>
    [] OTHER -> <<>>

Result(j, d) ==
  [jobId |-> j, operation |-> d.operation, outputPaths |-> OutputPaths(d)]

\* processJob(job): run the processor of the job's type under fault f.
\* ok: the promise resolved; error: the message of the error it rejected with.
processJob(j, d, f) ==
  LET plan == Plan(d)
      k == FailIndex(plan, f)
  IN IF k = 0
       THEN [ok |-> TRUE, error |-> "", events |-> plan, result |-> Result(j, d)]
       ELSE [ok |-> FALSE,
             error |-> IF plan[k].kind = "throw" THEN plan[k].s ELSE FaultMessage(f),
             events |-> SubSeq(plan, 1, k) \o CatchSteps(d),
             result |-> NoResult]

\* the outcome of every processJob call the worker can make, computed once
Outcome == [j \in JobIds, d \in AllJobData, f \in Faults |-> processJob(j, d, f)]

\* the last value the attempt passed to job.updateProgress (old if none)
RECURSIVE LastProgress(_, _)
LastProgress(events, old) ==
  IF events = <<>> THEN old
  ELSE LET e == events[Len(events)]
       IN IF e.kind = "progress" THEN e.n
          ELSE LastProgress(SubSeq(events, 1, Len(events) - 1), old)

\* ------------------------------------------------------------ the job store
Job(st, d, p, atm, stc, prog, reason, rv) ==
  [state |-> st, data |-> d, priority |-> p, attemptsMade |-> atm,
   stalledCounter |-> stc, progress |-> prog, failedReason |-> reason,
   returnvalue |-> rv, delay |-> 0, delayedUntil |-> 0]

Absent == Job("absent", NoData, 0, 0, 0, 0, "", NoResult)

\* the addJob calls of this model: POST /lidar/process (operations: ["dem"],
\* priority 7) and POST /sar/interferometry (priority 8), whose job data
\* carries sourceUrl and no sourceUrls, so that the SAR processor finds no input
Request(d, p) == [data |-> d, priority |-> p]
Requests ==
  { Request(JobData("lidar", "process", 1, FALSE, TRUE, FALSE), 7),
    Request(JobData("sar", "interferometry", 0, FALSE, FALSE, FALSE), 8) }

\* the external failures of this model
QueueFaults == { NoFault, Fault("index", 0) }

Remove(seq, j) == SelectSeq(seq, LAMBDA x : x # j)

\* BullMQ serves the prioritized set by ascending priority number (1 is served
\* first); p is served before q
ServedBefore(p, q) == p < q

\* variant: a new job goes in front of the set
AddPrioritized_front(seq, j, p, js) == <<j>> \o seq

\* ZADD prioritized with score priority * 2^32 + counter: j goes behind every
\* job that is served before it or has the same priority
AddPrioritized(seq, j, p, js) ==
  LET ahead == { i \in 1..Len(seq) : ~ServedBefore(p, js[seq[i]].priority) }
      k == IF ahead = {} THEN 0 ELSE CHOOSE i \in ahead : \A m \in ahead : m <= i
  IN SubSeq(seq, 1, k) \o <<j>> \o SubSeq(seq, k + 1, Len(seq))

Reply(op, j, res) == [op |-> op, job |-> j, result |-> res]
NoReply == Reply("none", NoJobId, "")

FreeSlot == [job |-> NoJobId, lock |-> FALSE]

Locked(j) == \E s \in Slots : slots[s].job = j /\ slots[s].lock

\* no processJob call is followed
IdleRun ==
  [fault |-> NoFault, unlinkFails |-> FALSE, pc |-> 0, block |-> "idle",
   calls |-> <<>>, temp |-> {}, cancelAsked |-> FALSE, error |-> ""]

\* the queue is empty and the worker idle
QueueInit ==
  /\ jobs = [j \in JobIds |-> Absent]
  /\ wait = <<>>
  /\ prioritized = <<>>
  /\ slots = [s \in Slots |-> FreeSlot]
  /\ cancelling = NoJobId
  /\ reply = NoReply
  /\ lost = 0
  /\ run = IdleRun
  /\ now = 0

Init == QueueInit /\ ApiInit

\* variant: a new job takes the slots from the jobs that are running
addJob_preempt(j, d, p) ==
  /\ jobs[j].state = "absent"
  /\ jobs' = [k \in JobIds |->
               IF k = j THEN Job("waiting", d, p, 0, 0, 0, "", NoResult)
               ELSE IF jobs[k].state = "active" THEN [jobs[k] EXCEPT !.state = "waiting"]
               ELSE jobs[k]]
  /\ prioritized' = AddPrioritized(prioritized, j, p, jobs)
  /\ slots' = [s \in Slots |-> FreeSlot]
  /\ reply' = Reply("addJob", j, "added")
  /\ UNCHANGED <<wait, cancelling, lost, run, now, apiVars>>

\* HyperModalJobQueue.addJob -> queue.add(jobType, jobData, {jobId, priority,
\* attempts: 3, backoff}).  An id that already exists is left alone and the
\* call returns the job without an error.
addJob(j, d, p) ==
  /\ IF jobs[j].state # "absent"
       THEN /\ reply' = Reply("addJob", j, "duplicate ignored")
            /\ UNCHANGED <<jobs, prioritized>>
       ELSE /\ jobs' = [jobs EXCEPT ![j] = Job("waiting", d, p, 0, 0, 0, "", NoResult)]
            /\ prioritized' = AddPrioritized(prioritized, j, p, jobs)
            /\ reply' = Reply("addJob", j, "added")
  /\ UNCHANGED <<wait, slots, cancelling, lost, run, now, apiVars>>

\* the job the next free slot takes: the wait list first, then the head of
\* the prioritized set
NextJob == IF wait # <<>> THEN Head(wait) ELSE Head(prioritized)

\* moveToActive takes the job out of the list it waits in, in the same atomic
\* step that gives the slot the lock
TakeFrom_leave(seq, j) == seq

TakeFrom(seq, j) == Remove(seq, j)

\* variant: a slot fetches the next job whether or not it runs one
SlotIdle_always(s) == TRUE

\* the Worker fetches a job only for a slot whose processJob call has settled
SlotIdle(s) == slots[s].job = NoJobId

\* Worker (concurrency slots): a free slot claims the next job in one atomic
\* step (moveToActive) and becomes the owner of its lock.
Dispatch(s) ==
  /\ SlotIdle(s)
  /\ wait # <<>> \/ prioritized # <<>>
  /\ LET j == NextJob
     IN /\ jobs' = [jobs EXCEPT ![j].state = "active"]
        /\ wait' = TakeFrom(wait, j)
        /\ prioritized' = TakeFrom(prioritized, j)
        /\ slots' = [slots EXCEPT ![s] = [job |-> j, lock |-> TRUE]]
  /\ reply' = NoReply
  /\ UNCHANGED <<cancelling, lost, run, now, apiVars>>

\* job.moveToCompleted(result)
Completed(job, out) ==
  [job EXCEPT !.state = "completed", !.returnvalue = out.result,
              !.attemptsMade = @ + 1,
              !.progress = LastProgress(out.events, @)]

ShouldRetry_offByOne(job, out) == job.attemptsMade < attempts

\* the error makes BullMQ retry: attempts are left (only an UnrecoverableError,
\* which the processors never throw, would stop the retries)
ShouldRetry(job, out) == job.attemptsMade + 1 < attempts

\* variant: a failed attempt is not counted
Failed_uncounted(job, out) ==
  [job EXCEPT !.state = IF ShouldRetry(job, out) THEN "delayed" ELSE "failed",
              !.failedReason = out.error,
              !.progress = LastProgress(out.events, @)]

\* variant: the reason of the first failure is kept
Failed_keepFirstReason(job, out) ==
  [job EXCEPT !.state = IF ShouldRetry(job, out) THEN "delayed" ELSE "failed",
              !.failedReason = IF @ = "" THEN out.error ELSE @,
              !.attemptsMade = @ + 1,
              !.progress = LastProgress(out.events, @)]

\* variant: the same delay before every retry
BackoffDelay_fixed(n) == backoffDelay

\* backoff type 'exponential': the delay before the retry that follows the
\* n-th failed attempt, in ms
BackoffDelay(n) == backoffDelay * 2 ^ (n - 1)

\* job.moveToFailed(err): back to delayed with a backoff while attempts are
\* left, to failed otherwise
Failed(job, out) ==
  [job EXCEPT !.state = IF ShouldRetry(job, out) THEN "delayed" ELSE "failed",
              !.failedReason = out.error,
              !.attemptsMade = @ + 1,
              !.progress = LastProgress(out.events, @),
              !.delay = IF ShouldRetry(job, out)
                          THEN BackoffDelay(job.attemptsMade + 1) ELSE @,
              !.delayedUntil = IF ShouldRetry(job, out)
                                 THEN now + BackoffDelay(job.attemptsMade + 1) ELSE @]

Settle_alwaysCompleted(job, out) == Completed(job, out)

\* what the Worker does with the promise of processJob
Settle(job, out) == IF out.ok THEN Completed(job, out) ELSE Failed(job, out)

\* A slot's processJob call settles.  The owner of the lock reports the outcome
\* to the queue; a slot that lost the lock cannot move the job (its token is
\* rejected), only the progress it wrote to an existing job stays.
Finish(s, f) ==
  /\ slots[s].job # NoJobId
  /\ LET j == slots[s].job
         out == Outcome[j, jobs[j].data, f]
     IN IF slots[s].lock
          THEN jobs' = [jobs EXCEPT ![j] = Settle(@, out)]
          ELSE IF jobs[j].state = "absent"
                 THEN UNCHANGED jobs
                 ELSE jobs' = [jobs EXCEPT ![j].progress = LastProgress(out.events, @)]
  /\ slots' = [slots EXCEPT ![s] = FreeSlot]
  /\ reply' = NoReply
  /\ UNCHANGED <<wait, prioritized, cancelling, lost, run, now, apiVars>>

\* the delay of a delayed job has passed
Promote(j) ==
  /\ jobs[j].state = "delayed"
  /\ jobs' = [jobs EXCEPT ![j].state = "waiting"]
  /\ prioritized' = AddPrioritized(prioritized, j, jobs[j].priority, jobs)
  /\ reply' = NoReply
  /\ UNCHANGED <<wait, slots, cancelling, lost, run, now, apiVars>>

\* a slot stops renewing its lock (blocked event loop, lost connection) while
\* its processJob call goes on
LoseLock(s) ==
  /\ slots[s].job # NoJobId /\ slots[s].lock
  /\ lost' = lost + 1
  /\ slots' = [slots EXCEPT ![s].lock = FALSE]
  /\ reply' = NoReply
  /\ UNCHANGED <<jobs, wait, prioritized, cancelling, run, now, apiVars>>

LockExpire(s) == lost < MaxLost /\ LoseLock(s)

\* the worker process dies with the job in its slot
Crash(s) ==
  /\ slots[s].job # NoJobId /\ slots[s].lock
  /\ lost' = lost + 1
  /\ slots' = [slots EXCEPT ![s] = FreeSlot]
  /\ reply' = NoReply
  /\ UNCHANGED <<jobs, wait, prioritized, cancelling, run, now, apiVars>>

WorkerCrash(s) == lost < MaxLost /\ Crash(s)

\* the stalled check looks at the jobs of the active list whose lock is gone
IsStalled(j) == jobs[j].state = "active" /\ ~Locked(j)

\* variant: the limit is reached one stall earlier
StalledTooOften_early(job) == job.stalledCounter + 1 >= maxStalledCount

StalledTooOften(job) == job.stalledCounter + 1 > maxStalledCount

\* stalled-jobs check (stalledInterval, maxStalledCount): an active job whose
\* lock is gone goes back to the wait list, or to failed when it stalled more
\* than maxStalledCount times
StalledCheck(j) ==
  /\ IsStalled(j)
  /\ IF StalledTooOften(jobs[j])
       THEN /\ jobs' = [jobs EXCEPT ![j].state = "failed",
                                    ![j].stalledCounter = @ + 1,
                                    ![j].failedReason = "job stalled more than allowable limit"]
            /\ UNCHANGED wait
       ELSE /\ jobs' = [jobs EXCEPT ![j].state = "waiting",
                                    ![j].stalledCounter = @ + 1]
            /\ wait' = <<j>> \o wait
  /\ reply' = NoReply
  /\ UNCHANGED <<prioritized, slots, cancelling, lost, run, now, apiVars>>

AlreadyFinished_onlyCompleted(state) == state = "completed"

\* cancelJob: if (state === 'completed' || state === 'failed') return false
AlreadyFinished(state) == state = "completed" \/ state = "failed"

\* cancelJob, first part: queue.getJob and job.getState
cancelJobRead(j) ==
  /\ cancelling = NoJobId
  /\ IF jobs[j].state = "absent"
       THEN /\ reply' = Reply("cancelJob", j, "false: not found")
            /\ UNCHANGED cancelling
       ELSE IF AlreadyFinished(jobs[j].state)
         THEN /\ reply' = Reply("cancelJob", j, "false: already finished")
              /\ UNCHANGED cancelling
         ELSE /\ cancelling' = j
              /\ reply' = NoReply
  /\ UNCHANGED <<jobs, wait, prioritized, slots, lost, run, now, apiVars>>

\* cancelJob, second part: job.remove().  A job locked by a worker cannot be
\* removed: remove() throws and cancelJob rethrows.
cancelJobRemove ==
  /\ cancelling # NoJobId
  /\ LET j == cancelling
     IN IF jobs[j].state = "active" /\ Locked(j)
          THEN /\ reply' = Reply("cancelJob", j, "throws")
               /\ UNCHANGED <<jobs, wait, prioritized>>
          ELSE /\ jobs' = [jobs EXCEPT ![j] = Absent]
               /\ wait' = Remove(wait, j)
               /\ prioritized' = Remove(prioritized, j)
               /\ reply' = Reply("cancelJob", j, "true")
  /\ cancelling' = NoJobId
  /\ UNCHANGED <<slots, lost, run, now, apiVars>>

\* DELETE /jobs/:jobId: the error code of the response to a cancelJob answer
DeleteRoute(r) ==
  CASE r.result = "true" -> "200"
    [] r.result = "throws" -> "500 CANCELLATION_FAILED"
    [] OTHER -> "404 CANNOT_CANCEL"

Next ==
  \/ \E j \in JobIds, r \in Requests : addJob(j, r.data, r.priority)
  \/ \E s \in Slots : Dispatch(s)
  \/ \E s \in Slots, f \in QueueFaults : Finish(s, f)
  \/ \E j \in JobIds : Promote(j)
  \/ \E s \in Slots : LockExpire(s)
  \/ \E s \in Slots : WorkerCrash(s)
  \/ \E j \in JobIds : StalledCheck(j)
  \/ \E j \in JobIds : cancelJobRead(j)
  \/ cancelJobRemove

Spec == Init /\ [][Next]_vars

\* The queue and the worker without cancel requests.  The worker keeps
\* fetching jobs while a slot is free, every processJob call settles (each
\* external call carries a timeout), delays run out and the stalled check
\* runs every stalledInterval.
NextNoCancel ==
  \/ \E j \in JobIds, r \in Requests : addJob(j, r.data, r.priority)
  \/ \E s \in Slots : Dispatch(s)
  \/ \E s \in Slots, f \in QueueFaults : Finish(s, f)
  \/ \E j \in JobIds : Promote(j)
  \/ \E s \in Slots : LockExpire(s)
  \/ \E s \in Slots : WorkerCrash(s)
  \/ \E j \in JobIds : StalledCheck(j)

FairSpec ==
  /\ Init /\ [][NextNoCancel]_vars
  /\ WF_vars(\E s \in Slots : Dispatch(s))
  /\ WF_vars(\E s \in Slots, f \in QueueFaults : Finish(s, f))
  /\ WF_vars(\E j \in JobIds : Promote(j))
  /\ WF_vars(\E j \in JobIds : StalledCheck(j))

\* ------------------------------------------------ one job that keeps stalling
\* One job in the queue, and workers that lose its lock up to MaxStalls times
\* (a crash, or a lock that is not renewed in time), between attempts that may
\* also fail.
StallNext ==
  \/ \E r \in Requests : addJob(RunJob, r.data, r.priority)
  \/ \E s \in Slots : Dispatch(s)
  \/ \E s \in Slots, f \in QueueFaults : Finish(s, f)
  \/ Promote(RunJob)
  \/ \E s \in Slots : lost < MaxStalls /\ LoseLock(s)
  \/ \E s \in Slots : lost < MaxStalls /\ Crash(s)
  \/ StalledCheck(RunJob)

StallSpec == Init /\ [][StallNext]_vars

\* ------------------------------------------------ one job and the clock
\* time passes
Tick ==
  /\ now < MaxTime
  /\ now' = now + TickMs
  /\ reply' = NoReply
  /\ UNCHANGED <<jobs, wait, prioritized, slots, cancelling, lost, run, apiVars>>

\* a delayed job is promoted when the clock has reached the time its delay ends
PromoteDue(j) == now >= jobs[j].delayedUntil /\ Promote(j)

BackoffNext ==
  \/ \E r \in Requests : addJob(RunJob, r.data, r.priority)
  \/ \E s \in Slots : Dispatch(s)
  \/ \E s \in Slots, f \in QueueFaults : Finish(s, f)
  \/ PromoteDue(RunJob)
  \/ Tick

BackoffSpec == Init /\ [][BackoffNext]_vars

\* ------------------------------------- a job of a type the worker does not know
\* jobs of a type that processJob's switch does not list, next to lidar jobs
TypeRequests ==
  { Request(JobData("video", "process", 1, FALSE, FALSE, FALSE), IngestPriority),
    Request(JobData("lidar", "process", 1, FALSE, TRUE, FALSE), 7) }

UnknownTypeNext ==
  \/ \E j \in JobIds, r \in TypeRequests : addJob(j, r.data, r.priority)
  \/ \E s \in Slots : Dispatch(s)
  \/ \E s \in Slots, f \in QueueFaults : Finish(s, f)
  \/ \E j \in JobIds : Promote(j)

\* the worker keeps fetching jobs while a slot is free, every processJob call
\* settles and every backoff delay runs out
UnknownTypeSpec ==
  /\ Init /\ [][UnknownTypeNext]_vars
  /\ WF_vars(\E s \in Slots : Dispatch(s))
  /\ WF_vars(\E s \in Slots, f \in QueueFaults : Finish(s, f))
  /\ WF_vars(\E j \in JobIds : Promote(j))

\* ------------------------------------------- one processJob call, step by step
\* The job of slot RunSlot is followed through its processor, one awaited call
\* at a time.  run.fault is the external call that fails in this attempt,
\* run.unlinkFails makes every fs.unlink reject, run.calls are the steps the
\* attempt has issued, run.temp the inputs whose temp file exists.


\* the step's promise rejects and nothing catches it at the call
Escalates(step) ==
  \/ Rejects(step, run.fault)
  \/ run.unlinkFails /\ Rejects(step, Fault("unlink", step.n))

\* the message of the error a rejecting step throws
ErrorOf(step) ==
  IF step.kind = "throw" THEN step.s
  ELSE IF step.kind = run.fault.kind THEN FaultMessage(run.fault)
  ELSE FaultMessage(Fault(step.kind, step.n))

\* fs.unlink rejected (and the file stays)
UnlinkFailed(step) ==
  run.unlinkFails \/ (run.fault.kind = "unlink" /\ run.fault.n = step.n)

\* the temp files after a step that did not escalate
TempAfter(temp, step) ==
  CASE step.kind = "writeFile" -> temp \cup {step.n}
    [] step.kind = "unlink" /\ ~UnlinkFailed(step) -> temp \ {step.n}
    [] OTHER -> temp

\* a worker slot has taken a job and calls processJob(job)
RunInit ==
  \E d \in AllJobData, f \in Faults, u \in BOOLEAN :
    /\ jobs = [j \in JobIds |->
                 IF j = RunJob
                   THEN Job("active", d, IngestPriority, 0, 0, 0, "", NoResult)
                   ELSE Absent]
    /\ wait = <<>>
    /\ prioritized = <<>>
    /\ slots = [s \in Slots |->
                  IF s = RunSlot THEN [job |-> RunJob, lock |-> TRUE] ELSE FreeSlot]
    /\ cancelling = NoJobId
    /\ reply = NoReply
    /\ lost = 0
    /\ run = [IdleRun EXCEPT !.fault = f, !.unlinkFails = u, !.block = "try"]
    /\ now = 0
    /\ ApiInit

\* the next awaited call (or throw statement) of the try block
RunStep ==
  /\ run.block = "try"
  /\ run.pc < Len(Plan(jobs[RunJob].data))
  /\ LET step == Plan(jobs[RunJob].data)[run.pc + 1]
     IN IF Escalates(step)
          THEN /\ run' = [run EXCEPT !.pc = @ + 1, !.calls = Append(@, step),
                                     !.block = "catch", !.error = ErrorOf(step)]
               /\ UNCHANGED jobs
          ELSE /\ run' = [run EXCEPT !.pc = @ + 1, !.calls = Append(@, step),
                                     !.temp = TempAfter(@, step)]
               /\ jobs' = IF step.kind = "progress"
                            THEN [jobs EXCEPT ![RunJob].progress = step.n]
                            ELSE jobs
  /\ reply' = NoReply
  /\ UNCHANGED <<wait, prioritized, slots, cancelling, lost, now, apiVars>>

\* the statements of a catch block, up to the first one that throws
RECURSIVE CatchRun(_, _)
CatchRun(steps, r) ==
  IF steps = <<>> THEN r
  ELSE LET step == Head(steps)
       IN IF Escalates(step)
            THEN [r EXCEPT !.calls = Append(@, step), !.error = ErrorOf(step)]
            ELSE CatchRun(Tail(steps),
                          [r EXCEPT !.calls = Append(@, step),
                                    !.temp = TempAfter(@, step)])

\* the catch block of the processor: clean-up (lidar "process" only), rethrow
RunCatch ==
  /\ run.block = "catch"
  /\ run' = [CatchRun(CatchSteps(jobs[RunJob].data), run) EXCEPT !.block = "thrown"]
  /\ reply' = NoReply
  /\ UNCHANGED <<jobs, wait, prioritized, slots, cancelling, lost, now, apiVars>>

\* what the attempt hands to the Worker: its result or its error
RunOutcome(ok) ==
  [ok |-> ok, error |-> run.error, events |-> run.calls,
   result |-> IF ok THEN Result(RunJob, jobs[RunJob].data) ELSE NoResult]

\* the processor returns its result object; processJob returns it to the Worker
RunReturn ==
  /\ run.block = "try"
  /\ run.pc = Len(Plan(jobs[RunJob].data))
  /\ jobs' = [jobs EXCEPT ![RunJob] = Settle(@, RunOutcome(TRUE))]
  /\ slots' = [slots EXCEPT ![RunSlot] = FreeSlot]
  /\ run' = [run EXCEPT !.block = "idle"]
  /\ reply' = NoReply
  /\ UNCHANGED <<wait, prioritized, cancelling, lost, now, apiVars>>

\* the error leaves the processor and processJob (both rethrow it)
RunThrow ==
  /\ run.block = "thrown"
  /\ jobs' = [jobs EXCEPT ![RunJob] = Settle(@, RunOutcome(FALSE))]
  /\ slots' = [slots EXCEPT ![RunSlot] = FreeSlot]
  /\ run' = [run EXCEPT !.block = "idle"]
  /\ reply' = NoReply
  /\ UNCHANGED <<wait, prioritized, cancelling, lost, now, apiVars>>

\* the backoff delay has passed and the slot takes the job again: processJob
\* is called anew, with whatever the external services do this time
RunRetry ==
  /\ run.block = "idle"
  /\ jobs[RunJob].state = "delayed"
  /\ \E f \in Faults, u \in BOOLEAN :
       run' = [run EXCEPT !.fault = f, !.unlinkFails = u, !.pc = 0,
                          !.block = "try", !.calls = <<>>, !.error = "",
                          !.cancelAsked = FALSE]
  /\ jobs' = [jobs EXCEPT ![RunJob].state = "active"]
  /\ slots' = [slots EXCEPT ![RunSlot] = [job |-> RunJob, lock |-> TRUE]]
  /\ reply' = NoReply
  /\ UNCHANGED <<wait, prioritized, cancelling, lost, now, apiVars>>

\* DELETE /jobs/:jobId while the slot runs the job: cancelJob reads "active",
\* job.remove() throws because the worker holds the lock, the route answers
\* 500; nothing is passed to the running processor
RunCancel ==
  /\ run.block \in {"try", "catch", "thrown"}
  /\ ~run.cancelAsked
  /\ run' = [run EXCEPT !.cancelAsked = TRUE]
  /\ reply' = Reply("cancelJob", RunJob, "throws")
  /\ UNCHANGED <<jobs, wait, prioritized, slots, cancelling, lost, now, apiVars>>

RunNext ==
  \/ RunStep
  \/ RunCatch
  \/ RunReturn
  \/ RunThrow
  \/ RunRetry
  \/ RunCancel

PipelineSpec == RunInit /\ [][RunNext]_vars

\* ------------------------------------------------------------- blob gateway
\* The two MinIOClient classes: the one of the API reads its bucket from
\* MINIO_BUCKET, the one of the worker has it fixed.
Bytes == {"b1", "b2"}
NoSuchKey == "NoSuchKey"
BucketEnvs == {"", "tenant-data"}

Paths ==
  { <<"raw", "/", "J1", "/", "a.las">>,
    <<"processed", "/", "J1", "/", "results.json">>,
    <<Scheme, DefaultBucket, "/", "a.las">> }

\* process.env.MINIO_BUCKET || 'geoagent-hypermodal'
ApiBucket == IF bucketEnv = "" THEN DefaultBucket ELSE bucketEnv
WorkerBucket == DefaultBucket

\* `minio://${bucket}/${objectPath}`
Ref(bucket, objectPath) == <<Scheme, bucket, "/">> \o objectPath

\* the places where pat occurs in s
Occurrences(s, pat) ==
  { i \in 1..(Len(s) - Len(pat) + 1) : SubSeq(s, i, i + Len(pat) - 1) = pat }

\* String.prototype.replace(pat, ''): the first occurrence of pat is removed
Replace(s, pat) ==
  IF Occurrences(s, pat) = {} THEN s
  ELSE LET i == CHOOSE k \in Occurrences(s, pat) :
                  \A m \in Occurrences(s, pat) : k <= m
       IN SubSeq(s, 1, i - 1) \o SubSeq(s, i + Len(pat), Len(s))

StartsWith(s, first) == Len(s) > 0 /\ Head(s) = first

\* the object key the worker's downloadFile asks for
WorkerKey(objectPath) == Replace(objectPath, <<Scheme, WorkerBucket, "/">>)

\* the object key the API's downloadFile asks for
ApiKey(objectPath) ==
  IF StartsWith(objectPath, Scheme)
  THEN Replace(objectPath, <<Scheme, ApiBucket, "/">>)
  ELSE objectPath

\* client.putObject: an object of the same bucket and key is overwritten
PutObject(store, bucket, key, bytes) ==
  { o \in store : ~(o.bucket = bucket /\ o.key = key) }
    \cup { [bucket |-> bucket, key |-> key, bytes |-> bytes] }

\* client.getObject: the bytes of the object, or the server's NoSuchKey error
GetObject(store, bucket, key) ==
  IF \E o \in store : o.bucket = bucket /\ o.key = key
  THEN (CHOOSE o \in store : o.bucket = bucket /\ o.key = key).bytes
  ELSE NoSuchKey

SideBucket(side) == IF side = "api" THEN ApiBucket ELSE WorkerBucket
SideKey(side, objectPath) ==
  IF side = "api" THEN ApiKey(objectPath) ELSE WorkerKey(objectPath)

\* uploadFile of one of the two clients
uploadFile(side, objectPath, buffer) ==
  /\ minio' = PutObject(minio, SideBucket(side), objectPath, buffer)
  /\ io' = [up |-> side, down |-> "none", op |-> "upload",
            ref |-> Ref(SideBucket(side), objectPath),
            sent |-> buffer, got |-> ""]
  /\ UNCHANGED <<bucketEnv, admitted, queueVars, serviceVars>>

\* downloadFile of one of the two clients, given the reference the last
\* upload returned
downloadFile(side) ==
  /\ io.op = "upload"
  /\ io' = [io EXCEPT !.op = "download", !.down = side,
              !.got = GetObject(minio, SideBucket(side), SideKey(side, io.ref))]
  /\ UNCHANGED <<minio, bucketEnv, admitted, queueVars, serviceVars>>

apiUpload == \E p \in Paths, b \in Bytes : uploadFile("api", p, b)
workerUpload == \E p \in Paths, b \in Bytes : uploadFile("worker", p, b)
apiDownload == downloadFile("api")
workerDownload == downloadFile("worker")

\* the API process is started with MINIO_BUCKET set or not
BlobInit ==
  /\ QueueInit
  /\ minio = {}
  /\ bucketEnv \in BucketEnvs
  /\ io = NoIo
  /\ admitted = <<>>
  /\ ServiceIdle

BlobNext == apiUpload \/ workerUpload \/ apiDownload \/ workerDownload

BlobSpec == BlobInit /\ [][BlobNext]_vars

\* ------------------------------------------------------------- lidar routes
\* POST /lidar/ingest and POST /lidar/process, and the fetch stage of the
\* worker for the jobs they admit.
MaxAdmitted == 3
JobTokens == <<"J1", "J2", "J3">>
Filenames == {"a.las", "b.laz"}

\* `raw/${jobId}/${filename}`
RawPath(jobId, filename) == <<"raw", "/", jobId, "/", filename>>

\* POST /ingest: the file is uploaded by the API client, then the job is added
\* with the returned reference as its sourceUrl; the response carries jobId
ingestRoute ==
  /\ Len(admitted) < MaxAdmitted
  /\ \E filename \in Filenames, buffer \in Bytes :
       LET jobId == JobTokens[Len(admitted) + 1]
           objectPath == RawPath(jobId, filename)
       IN /\ minio' = PutObject(minio, ApiBucket, objectPath, buffer)
          /\ admitted' = Append(admitted,
               [jobId |-> jobId, operation |-> "ingest",
                sourceUrl |-> Ref(ApiBucket, objectPath),
                stored |-> buffer])
  /\ io' = NoIo
  /\ UNCHANGED <<bucketEnv, queueVars, serviceVars>>

\* POST /process: dataset_id names an earlier ingest by the id its response
\* carried; the job is added with sourceUrl: dataset_id
processRoute ==
  /\ Len(admitted) < MaxAdmitted
  /\ \E i \in 1..Len(admitted) :
       /\ admitted[i].operation = "ingest"
       /\ LET dataset_id == admitted[i].jobId
          IN admitted' = Append(admitted,
               [jobId |-> JobTokens[Len(admitted) + 1], operation |-> "process",
                sourceUrl |-> <<dataset_id>>,
                stored |-> admitted[i].stored])
  /\ io' = NoIo
  /\ UNCHANGED <<minio, bucketEnv, queueVars, serviceVars>>

\* the worker runs an admitted job: handleLiDARProcessing starts with
\* minioClient.downloadFile(sourceUrl), handleLiDARIngestion downloads nothing
workerFetch ==
  /\ \E i \in 1..Len(admitted) :
       io' = IF admitted[i].operation = "process"
               THEN [up |-> "api", down |-> "worker", op |-> "download",
                     ref |-> admitted[i].sourceUrl,
                     sent |-> admitted[i].stored,
                     got |-> GetObject(minio, WorkerBucket,
                                       WorkerKey(admitted[i].sourceUrl))]
               ELSE [up |-> "api", down |-> "worker", op |-> "validate",
                     ref |-> admitted[i].sourceUrl,
                     sent |-> admitted[i].stored, got |-> ""]
  /\ UNCHANGED <<minio, bucketEnv, admitted, queueVars, serviceVars>>

LidarNext == ingestRoute \/ processRoute \/ workerFetch

LidarSpec == Init /\ [][LidarNext]_vars

\* ------------------------------------------------------------ getQueueStats
\* Promise.all([getWaitingCount(), getActiveCount(), getCompletedCount(),
\* getFailedCount(), getDelayedCount(), isPaused()]): five count commands sent
\* in this order, each answered by Redis on its own, with the commands of the
\* worker and of other requests served in between.
StatOrder == <<"waiting", "active", "completed", "failed", "delayed">>

\* the number of jobs in state st
Count(st) == Cardinality({ j \in JobIds : jobs[j].state = st })

\* the number of jobs the queue holds
NumJobs == Cardinality({ j \in JobIds : jobs[j].state # "absent" })

\* the counts read by the next command of the call
ReadCounts(st) == Append(st.counts, Count(StatOrder[Len(st.counts) + 1]))

\* getQueueStats is called: the first count is read
getQueueStats ==
  /\ stats.pc \in {0, Len(StatOrder)}
  /\ LET st == [pc |-> 0, n0 |-> NumJobs, counts |-> <<>>]
     IN stats' = [st EXCEPT !.counts = ReadCounts(st), !.pc = Len(ReadCounts(st))]
  /\ UNCHANGED <<queueVars, blobVars, redis, upd, activeSessions, connected>>

\* the next count of the call in progress is read
statsRead ==
  /\ stats.pc \in 1..(Len(StatOrder) - 1)
  /\ stats' = [stats EXCEPT !.counts = ReadCounts(stats),
                            !.pc = Len(ReadCounts(stats))]
  /\ UNCHANGED <<queueVars, blobVars, redis, upd, activeSessions, connected>>

StatsNext ==
  \/ \E j \in JobIds, r \in TypeRequests : addJob(j, r.data, r.priority)
  \/ \E s \in Slots : Dispatch(s)
  \/ \E s \in Slots, f \in QueueFaults : Finish(s, f)
  \/ \E j \in JobIds : Promote(j)
  \/ getQueueStats
  \/ statsRead

StatsSpec == Init /\ [][StatsNext]_vars

\* ------------------------------------------------------------- QueueService
\* The job records of QueueService (job:<id> in Redis) and updateJob, which
\* reads the record with getJob and writes the merged record back with a
\* second command.
Updates ==
  { [field |-> "status", value |-> "processing"],
    [field |-> "progress", value |-> "50"] }

\* { ...job, ...updates }
Merge(job, field, value) ==
  IF field = "status" THEN [job EXCEPT !.status = value]
  ELSE [job EXCEPT !.progress = value]

\* enqueue: a record with a fresh id is stored, status 'pending'
enqueue(id) ==
  /\ ~redis[id].exists
  /\ redis' = [redis EXCEPT ![id] =
                 [exists |-> TRUE, status |-> "pending", progress |-> ""]]
  /\ UNCHANGED <<queueVars, blobVars, stats, upd, activeSessions, connected>>

\* updateJob, up to the answer of getJob: null ends the call (if (job) ...)
updateJobRead(c, id, u) ==
  /\ upd[c].pc = "idle"
  /\ upd' = [upd EXCEPT ![c] =
               [pc |-> IF redis[id].exists THEN "read" ELSE "done",
                id |-> id, field |-> u.field, value |-> u.value,
                job |-> redis[id]]]
  /\ UNCHANGED <<queueVars, blobVars, stats, redis, activeSessions, connected>>

\* updateJob, the redis.set of the merged record
updateJobWrite(c) ==
  /\ upd[c].pc = "read"
  /\ redis' = [redis EXCEPT ![upd[c].id] =
                 Merge(upd[c].job, upd[c].field, upd[c].value)]
  /\ upd' = [upd EXCEPT ![c].pc = "done"]
  /\ UNCHANGED <<queueVars, blobVars, stats, activeSessions, connected>>

RecordNext ==
  \/ \E id \in RecordIds : enqueue(id)
  \/ \E c \in Callers, id \in RecordIds, u \in Updates : updateJobRead(c, id, u)
  \/ \E c \in Callers : updateJobWrite(c)

RecordSpec == Init /\ [][RecordNext]_vars

\* --------------------------------------------------- GeoAgentWebSocketServer
\* handleConnection and the 'disconnect' handler it registers.  Each handler
\* runs to its end without an await, so each is one step.
SessionIds == {"s1", "s2", "s3"}
QueryTenants == {"", "acme", "globex"}

\* socket.handshake.query.tenantId as string || 'default'
TenantOf(q) == IF q = "" THEN "default" ELSE q

\* if (!has(tenantId)) set(tenantId, new Set()); get(tenantId).add(sessionId)
AddSession(sessions, tenantId, sessionId) ==
  [t \in DOMAIN sessions \cup {tenantId} |->
     IF t = tenantId
       THEN (IF t \in DOMAIN sessions THEN sessions[t] ELSE {}) \cup {sessionId}
       ELSE sessions[t]]

\* variant: the tenant's entry is kept when its last session leaves
RemoveSession_keepEmpty(sessions, tenantId, sessionId) ==
  [t \in DOMAIN sessions |->
     IF t = tenantId THEN sessions[t] \ {sessionId} ELSE sessions[t]]

\* get(tenantId)?.delete(sessionId); if (get(tenantId)?.size === 0) delete(tenantId)
RemoveSession(sessions, tenantId, sessionId) ==
  IF tenantId \notin DOMAIN sessions THEN sessions
  ELSE IF sessions[tenantId] \ {sessionId} = {}
    THEN [t \in DOMAIN sessions \ {tenantId} |-> sessions[t]]
    ELSE [sessions EXCEPT ![tenantId] = @ \ {sessionId}]

\* 'connection': a socket with a new id is accepted
handleConnection(sessionId, q) ==
  /\ \A c \in connected : c.id # sessionId
  /\ activeSessions' = AddSession(activeSessions, TenantOf(q), sessionId)
  /\ connected' = connected \cup
       {[id |-> sessionId, tenant |-> TenantOf(q), open |-> TRUE]}
  /\ UNCHANGED <<queueVars, blobVars, stats, redis, upd>>

\* 'disconnect' of an open socket: the handler has the tenantId and sessionId
\* of its connection
disconnect(c) ==
  /\ c \in connected
  /\ c.open
  /\ activeSessions' = RemoveSession(activeSessions, c.tenant, c.id)
  /\ connected' = (connected \ {c}) \cup {[c EXCEPT !.open = FALSE]}
  /\ UNCHANGED <<queueVars, blobVars, stats, redis, upd>>

\* the sessions that are open for tenant t
OpenSessions(t) == { c.id : c \in { x \in connected : x.open /\ x.tenant = t } }

SocketNext ==
  \/ \E sessionId \in SessionIds, q \in QueryTenants : handleConnection(sessionId, q)
  \/ \E c \in connected : disconnect(c)

SocketSpec == Init /\ [][SocketNext]_vars

\* ----------------------------------------------------------------- claims
Range(seq) == { seq[i] : i \in 1..Len(seq) }

Queued == {"waiting", "delayed"}
Finished == {"completed", "failed"}

\* the edge job j takes in a step, as the job store shows it
Edge(j, from, to) == jobs[j].state \in from /\ jobs'[j].state \in to
SameState(j) == jobs'[j].state = jobs[j].state

\* C1: every state change of every job follows absent (pending) -> queued
\* (waiting or delayed) -> active -> {completed | failed | cancelled}, a
\* cancelled job being one that cancelJob took out of the store while it was
\* queued or active, plus active -> queued on a retry or a stall recovery while
\* attempts are left; no job leaves completed or failed.
C1_StateGraph ==
  [][\A j \in JobIds :
       \/ SameState(j)
       \/ Edge(j, {"absent"}, {"waiting"})
       \/ Edge(j, {"delayed"}, {"waiting"})
       \/ Edge(j, {"waiting"}, {"active"})
       \/ Edge(j, {"active"}, Finished)
       \/ Edge(j, {"active"}, Queued) /\ jobs'[j].attemptsMade < attempts
       \/ /\ Edge(j, Queued \cup {"active"}, {"absent"})
          /\ reply' = Reply("cancelJob", j, "true")]_vars

\* the processor of data d rejects whatever the external services do
AlwaysFails(d) == \A f \in QueueFaults : ~processJob(NoJobId, d, f).ok

FatalMessages ==
  { "Unknown LiDAR operation", "Unknown spectral operation", "Unknown SAR operation",
    "Unknown thermal operation", "Unknown job type: video",
    SARTooFew("interferometry"), SARTooFew("coherence"), SARTooFew("change_detection") }

\* C3: a job that failed with a fatal error (unknown operation, unknown job
\* type, too few inputs) is failed by that first failure: it is not re-queued
\* and no retry attempt is made.
C3_FatalFailsAtOnce ==
  \A j \in JobIds :
    jobs[j].failedReason \in FatalMessages
      => jobs[j].state = "failed" /\ jobs[j].attemptsMade = 1

\* C4: a Knowledge Sink failure alone (fetch, compute and persist succeeded)
\* never makes an attempt fail: no job is failed or retried with the error of
\* the GraphRAG store call.
C4_KnowledgeSinkNonFatal ==
  \A j \in JobIds : jobs[j].failedReason # FaultMessage(Fault("index", 0))

\* C5: every attempt the lock owner settles is reported once, as completed
\* with the processor's result when processJob resolved and as failed (delayed
\* for a retry, or failed) with the processor's error when it rejected.
C5_OneOutcome ==
  [][\A j \in JobIds :
       jobs[j].state = "active" /\ jobs'[j].state # "absent"
         /\ jobs'[j].attemptsMade # jobs[j].attemptsMade
         => /\ jobs'[j].attemptsMade = jobs[j].attemptsMade + 1
            /\ \E s \in Slots : slots[s] = [job |-> j, lock |-> TRUE] /\ slots'[s] = FreeSlot
            /\ \E f \in QueueFaults :
                 LET out == processJob(j, jobs[j].data, f)
                 IN \/ /\ out.ok
                       /\ jobs'[j].state = "completed"
                       /\ jobs'[j].returnvalue = out.result
                       /\ jobs'[j].failedReason = jobs[j].failedReason
                    \/ /\ ~out.ok
                       /\ jobs'[j].state \in {"delayed", "failed"}
                       /\ jobs'[j].failedReason = out.error
                       /\ jobs'[j].returnvalue = NoResult]_vars

\* one job completed with its result while another one was failed with its error
C5_Witness ==
  \E j, k \in JobIds :
    /\ jobs[j].state = "completed" /\ jobs[j].returnvalue = Result(j, jobs[j].data)
    /\ jobs[k].state = "failed" /\ jobs[k].failedReason = SARTooFew("interferometry")

\* C6: addJob with an id that exists in the store is rejected with
\* DUPLICATE_JOB, creates no second job and leaves the first job's record
\* unchanged.
C6_DuplicateRejected ==
  [][\A j \in JobIds :
       jobs[j].state # "absent" /\ reply'.op = "addJob" /\ reply'.job = j
         => /\ reply'.result = "DUPLICATE_JOB"
            /\ jobs' = jobs /\ wait' = wait /\ prioritized' = prioritized]_vars

\* C7: the job a slot takes has the numerically highest priority among the
\* waiting jobs.
C7_HighestPriorityFirst ==
  [][\A j \in JobIds :
       Edge(j, {"waiting"}, {"active"})
         => \A k \in JobIds :
              jobs[k].state = "waiting" => jobs[k].priority <= jobs[j].priority]_vars

C9_CancelFinished ==
  [][\A j \in JobIds :
       cancelling = NoJobId /\ jobs[j].state \in Finished
         => /\ cancelling' # j
            /\ reply'.op = "cancelJob" /\ reply'.job = j
                 => /\ reply'.result = "false: already finished"
                    /\ DeleteRoute(reply') = "404 CANNOT_CANCEL"
                    /\ jobs' = jobs]_vars

\* cancelJob was called for a failed job, which is still there
C9_Witness ==
  \E j \in JobIds :
    /\ reply = Reply("cancelJob", j, "false: already finished")
    /\ jobs[j].state = "failed" /\ jobs[j].attemptsMade = attempts

\* C10: after a successful cancel of a queued or active job, getJob still
\* returns the job (GET /jobs/:jobId finds it), in a state that is none of
\* waiting, delayed, active, completed and failed.
C10_CancelledState ==
  [][\A j \in JobIds :
       reply' = Reply("cancelJob", j, "true")
         => /\ jobs'[j].state \notin {"absent", "waiting", "delayed", "active"} \cup Finished
            /\ jobs'[j].data = jobs[j].data]_vars

\* the calls that make up the fetch, compute, persist and index stages
StageKinds == {"download", "writeFile", "compute", "upload", "index"}

\* C11: once a cancellation was requested for the job a slot runs, the
\* processor issues no further fetch, compute, persist or index call (the calls
\* issued before the request may finish).
C11_CooperativeCancel ==
  [][run.cancelAsked /\ Len(run'.calls) > Len(run.calls)
       => run'.calls[Len(run'.calls)].kind \notin StageKinds]_vars

\* C12: when an attempt is over, by a return or by a throw at any stage, and
\* no fs.unlink call failed in it, no temp file of the job is left.
C12_TempFilesRemoved ==
  [][(/\ run.block # "idle" /\ run'.block = "idle"
      /\ ~run.unlinkFails /\ run.fault.kind # "unlink")
       => run'.temp = {}]_vars

\* the fault of the attempt, clean-up failures left out
StageFault == IF run.fault.kind = "unlink" THEN NoFault ELSE run.fault

UnknownOperation ==
  { "Unknown LiDAR operation", "Unknown spectral operation",
    "Unknown SAR operation", "Unknown thermal operation" }

\* C14: an attempt that fails because the operation is not one of the
\* modality's verbs has made no download, temp-file write, compute, upload or
\* Knowledge Sink call.
C14_ValidationFirst ==
  run.error \in UnknownOperation
    => \A i \in 1..Len(run.calls) : run.calls[i].kind \notin StageKinds

\* a call of kind k has been issued before position i of the attempt's calls
IssuedBefore(k, i) == \E h \in 1..(i - 1) : run.calls[h].kind = k

\* C15: within one attempt the stages run in the fixed order: a Knowledge
\* Sink submission is made only after the output has been persisted through
\* the Blob Gateway, and an upload only after a compute call.
C15_StageOrder ==
  \A i \in 1..Len(run.calls) :
    /\ run.calls[i].kind = "index" => IssuedBefore("upload", i)
    /\ run.calls[i].kind = "upload" => IssuedBefore("compute", i)

\* C16: a retry re-runs the pipeline from its first step with nothing carried
\* over from the previous attempt, and in every attempt, the first or a later
\* one, each Compute Client call comes after a download issued by that same
\* attempt.
C16_RetryFromFirstStage ==
  [][/\ (jobs[RunJob].state = "delayed" /\ jobs'[RunJob].state = "active")
          => run'.pc = 0 /\ run'.calls = <<>> /\ run'.error = ""
     /\ \A i \in 1..Len(run'.calls) :
          run'.calls[i].kind = "compute"
            => \E h \in 1..(i - 1) : run'.calls[h].kind = "download"]_vars

C16_Witness ==
  /\ jobs[RunJob].state = "active"
  /\ jobs[RunJob].attemptsMade = 1
  /\ \E i \in 1..Len(run.calls) : run.calls[i].kind = "compute"

\* the progress values reported so far by the running attempt, in order
ProgressValues == SelectSeq(run.calls, LAMBDA c : c.kind = "progress")

\* C17: the progress values one attempt reports are integers within 0..100
\* and never decrease, whatever the pipeline and the operation branch.
C17_ProgressMonotonic ==
  LET p == ProgressValues
  IN /\ \A i \in 1..Len(p) : p[i].n \in 0..100
     /\ \A i \in 1..Len(p), h \in 1..Len(p) : i < h => p[i].n <= p[h].n

C17_Witness ==
  /\ jobs[RunJob].state = "active"
  /\ Len(ProgressValues) >= 4
  /\ ProgressValues[Len(ProgressValues)].n = 100
  /\ jobs[RunJob].progress = 100

\* C18: a job is created with attemptsMade 0; the counter of an existing job
\* never goes down; an attempt that fails and is to be retried (active to
\* delayed) adds exactly one, and the counter is untouched until the retry is
\* picked up, so each retry starts with a strictly greater counter.
C18_AttemptsIncrease ==
  [][\A j \in JobIds :
       /\ (jobs[j].state = "absent" /\ jobs'[j].state # "absent")
            => jobs'[j].attemptsMade = 0
       /\ (jobs[j].state # "absent" /\ jobs'[j].state # "absent")
            => jobs'[j].attemptsMade >= jobs[j].attemptsMade
       /\ (jobs[j].state = "active" /\ jobs'[j].state = "delayed")
            => jobs'[j].attemptsMade = jobs[j].attemptsMade + 1
       /\ (jobs[j].state \in Queued /\ jobs'[j].state # "absent")
            => jobs'[j].attemptsMade = jobs[j].attemptsMade]_vars

C18_Witness ==
  \E j \in JobIds :
    /\ jobs[j].state = "active"
    /\ jobs[j].attemptsMade = 2
    /\ jobs[j].failedReason # ""

\* C19: once a failed attempt has been re-queued for a retry, the job shows
\* progress 0 until the new attempt reports its first checkpoint.
C19_ProgressResetOnRetry ==
  \A j \in JobIds :
    jobs[j].state \in Queued /\ jobs[j].attemptsMade > 0
      => jobs[j].progress = 0

\* C20: when the last allowed attempt fails, the job becomes failed and the
\* failedReason the status route returns is the message of the error that
\* this attempt threw, whatever the earlier attempts failed with.
C20_LastReasonKept ==
  [][(jobs[RunJob].state = "active" /\ jobs'[RunJob].state = "failed")
       => /\ jobs'[RunJob].attemptsMade = attempts
          /\ run.error # ""
          /\ jobs'[RunJob].failedReason = run.error
          /\ run.error = processJob(RunJob, jobs[RunJob].data, StageFault).error]_vars

C20_Witness ==
  /\ jobs[RunJob].state = "failed"
  /\ jobs[RunJob].attemptsMade = attempts
  /\ jobs[RunJob].failedReason = "graphrag: request failed"
  /\ jobs[RunJob].progress = 90

\* the jobs that carry several source references
MultiInput == {"sar", "fusion"}

\* the inputs the running attempt has downloaded so far, in order
Downloads == SelectSeq(run.calls, LAMBDA c : c.kind = "download")

\* C21: a multi-input job (SAR, fusion) with N source references downloads
\* them one after another in the order given; a Compute Client call is made
\* only after all N downloads; a download that fails is the last call of the
\* try block; and a job that completes has downloaded all N inputs and
\* passed them to a compute call.
C21_FetchInOrderFailFast ==
  LET d == jobs[RunJob].data
  IN d.jobType \in MultiInput =>
       /\ \A i \in 1..Len(Downloads) : Downloads[i].n = i
       /\ \A i \in 1..Len(run.calls) :
            run.calls[i].kind = "compute"
              => Len(SelectSeq(SubSeq(run.calls, 1, i),
                               LAMBDA c : c.kind = "download")) = d.nInputs
       /\ run.error = FaultMessage(Fault("download", 1))
            => /\ run.calls[Len(run.calls)].kind = "download"
               /\ \A i \in 1..Len(run.calls) : run.calls[i].kind # "compute"
       /\ jobs[RunJob].state = "completed"
            => /\ Len(Downloads) = d.nInputs
               /\ \E i \in 1..Len(run.calls) : run.calls[i].kind = "compute"

\* C22: a SAR interferometry job with one source url fails at once: the
\* attempt that finds too few images makes no Compute Client call and leaves
\* the job failed, with reason "at least 2 images required" and no attempt
\* counted.
C22_TooFewImagesFailsAtOnce ==
  [][(/\ jobs[RunJob].data = JobData("sar", "interferometry", 1, FALSE, FALSE, FALSE)
      /\ jobs[RunJob].state = "active"
      /\ run.error = SARTooFew("interferometry")
      /\ run.block = "thrown" /\ run'.block = "idle")
       => /\ \A i \in 1..Len(run.calls) : run.calls[i].kind # "compute"
          /\ jobs'[RunJob].state = "failed"
          /\ jobs'[RunJob].attemptsMade = 0
          /\ jobs'[RunJob].failedReason = "at least 2 images required"]_vars

\* C23: a lidar "process" job (operations: ["dem"]) whose first attempt failed
\* and whose second attempt runs to its end is completed with attempt 1, a
\* progress trace that ends at 100 and a non-empty outputPaths.
C23_RetryThenComplete ==
  [][(/\ jobs[RunJob].data = JobData("lidar", "process", 1, FALSE, TRUE, FALSE)
      /\ jobs[RunJob].state = "active"
      /\ jobs[RunJob].attemptsMade = 1
      /\ jobs'[RunJob].state \in Finished)
       => /\ jobs'[RunJob].state = "completed"
          /\ jobs'[RunJob].attemptsMade = 1
          /\ ProgressValues # <<>>
          /\ ProgressValues[Len(ProgressValues)].n = 100
          /\ jobs'[RunJob].progress = 100
          /\ jobs'[RunJob].returnvalue.outputPaths # <<>>]_vars

\* C24: the stalled-job check returns an active job whose worker is gone to
\* the queue and adds one to its stall counter, at most maxStalledCount (2)
\* times; the next stall leaves it failed.  The stall counter is separate
\* from the attempt counter: a stall does not count as an attempt, and an
\* attempt that fails or completes does not count as a stall.
C24_StallRetries ==
  [][\A j \in JobIds :
       /\ (jobs[j].state # "absent" /\ jobs'[j].state # "absent"
           /\ jobs'[j].stalledCounter # jobs[j].stalledCounter)
            => /\ jobs[j].state = "active" /\ ~Locked(j)
               /\ jobs'[j].stalledCounter = jobs[j].stalledCounter + 1
               /\ jobs'[j].attemptsMade = jobs[j].attemptsMade
               /\ IF jobs[j].stalledCounter < maxStalledCount
                    THEN jobs'[j].state = "waiting" /\ j \in Range(wait')
                    ELSE jobs'[j].state = "failed" /\ j \notin Range(wait')
       /\ (jobs[j].state # "absent" /\ jobs'[j].state # "absent"
           /\ jobs'[j].attemptsMade # jobs[j].attemptsMade)
            => jobs'[j].stalledCounter = jobs[j].stalledCounter
       /\ jobs'[j].stalledCounter <= maxStalledCount + 1]_vars

C24_Witness ==
  /\ jobs[RunJob].state = "failed"
  /\ jobs[RunJob].stalledCounter = maxStalledCount + 1
  /\ jobs[RunJob].attemptsMade = 2
  /\ jobs[RunJob].failedReason = "job stalled more than allowable limit"

\* the slots of the worker that are inside a processJob call
Executing == { s \in Slots : slots[s].job # NoJobId }

Before(seq, a, b) ==
  \E i, k \in 1..Len(seq) : i < k /\ seq[i] = a /\ seq[k] = b

\* jobs a and b wait in the same priority tier
SameTier(a, b) == a # b /\ jobs[a].priority = jobs[b].priority

\* C26: waiting jobs of equal priority are served first enqueued, first
\* served: a job that enters the prioritized set goes behind every waiting job
\* of its priority, the order of two waiting jobs never changes, and the job
\* a slot takes from the set has no waiting job of its priority ahead of it.
C26_FifoWithinTier ==
  [][\A a \in JobIds, b \in JobIds :
       /\ (a \in Range(prioritized) /\ b \notin Range(prioritized)
           /\ b \in Range(prioritized') /\ jobs'[a].priority = jobs'[b].priority
           /\ a \in Range(prioritized'))
            => Before(prioritized', a, b)
       /\ (Before(prioritized, a, b) /\ a \in Range(prioritized')
           /\ b \in Range(prioritized'))
            => Before(prioritized', a, b)
       /\ (SameTier(a, b) /\ Before(prioritized, a, b)
           /\ jobs[b].state = "waiting" /\ jobs'[b].state = "active")
            => jobs'[a].state # "waiting"]_vars

C26_Witness ==
  /\ Len(prioritized) = 2
  /\ SameTier(prioritized[1], prioritized[2])
  /\ reply = Reply("addJob", prioritized[2], "added")

\* C27: an addJob call, whatever the priority of the new job, leaves every
\* active job active with its data, counters and progress, and leaves every
\* slot with the job it runs; of the lists only the prioritized set changes.
C27_NoPreemption ==
  [][reply'.op = "addJob"
       => /\ slots' = slots
          /\ wait' = wait
          /\ \A k \in JobIds : jobs[k].state = "active" => jobs'[k] = jobs[k]]_vars

C27_Witness ==
  /\ reply.op = "addJob" /\ reply.result = "added"
  /\ \E k \in JobIds, s \in Slots :
       /\ jobs[k].state = "active" /\ slots[s] = [job |-> k, lock |-> TRUE]
       /\ jobs[k].priority = 7 /\ jobs[reply.job].priority = 8
       /\ jobs[reply.job].state = "waiting"

\* the longest delay the attempt ceiling allows
MaxBackoff == backoffDelay * 2 ^ (attempts - 2)

C29_ProgressOnlyWhileActive ==
  [][\A j \in JobIds :
       (jobs[j].state \in Queued \cup Finished /\ jobs'[j].state = jobs[j].state)
         => jobs'[j].progress = jobs[j].progress]_vars

\* the job types processJob's switch lists
KnownTypes == {"lidar", "spectral", "sar", "thermal", "fusion"}

\* C30: a job whose jobType is none of the five known types fails with an
\* error that names the type; the failure touches no other job and frees the
\* slot, and every queued job of a known type still gets its attempts and
\* finishes.
C30_UnknownTypeIsPerJob ==
  /\ [][\A j \in JobIds :
          (/\ jobs[j].data.jobType \notin KnownTypes
           /\ jobs[j].state = "active" /\ jobs'[j].state # "active")
            => /\ jobs'[j].state \in {"delayed", "failed"}
               /\ jobs'[j].failedReason = "Unknown job type: " \o jobs[j].data.jobType
               /\ \A k \in JobIds \ {j} : jobs'[k] = jobs[k]
               /\ \A s \in Slots :
                    slots'[s] = IF slots[s].job = j THEN FreeSlot ELSE slots[s]]_vars
  /\ \A j \in JobIds :
       (jobs[j].state \in Queued /\ jobs[j].data.jobType \in KnownTypes)
         ~> (jobs[j].state \in Finished)

C30_Witness ==
  \E j \in JobIds, k \in JobIds :
    /\ jobs[j].data.jobType = "video" /\ jobs[j].state = "failed"
    /\ jobs[j].failedReason = "Unknown job type: video"
    /\ jobs[k].data.jobType = "lidar" /\ jobs[k].state = "completed"
    /\ jobs[k].attemptsMade = 1

\* C31: a fusion "multimodal" job that is in the queue with fewer than 2
\* inputs never completes: the fusion pipeline fails it.
C31_FusionNeedsTwoInputs ==
  (/\ jobs[RunJob].data.jobType = "fusion"
   /\ jobs[RunJob].data.operation = "multimodal"
   /\ jobs[RunJob].state = "completed")
    => jobs[RunJob].data.nInputs >= 2

\* C32: a download of the reference the last upload returned gives back the
\* uploaded bytes, whichever of the two gateways uploaded and whichever
\* downloads.
C32_RoundTrip == io.op = "download" => io.got = io.sent

\* C32, on one side: the round trip through one and the same gateway.
C32_SameSideRoundTrip ==
  (io.op = "download" /\ io.up = io.down) => io.got = io.sent

\* the paths the running (or last) attempt has passed to uploadFile
Uploaded ==
  { run.calls[i].s : i \in { k \in 1..Len(run.calls) : run.calls[k].kind = "upload" } }

\* C33: when a job has completed a compute operation, the result's outputPaths
\* name exactly the artifacts the attempt uploaded: each uploaded artifact is
\* listed and each listed reference was uploaded.
C33_OutputPathsAreTheUploads ==
  (/\ jobs[RunJob].state = "completed"
   /\ jobs[RunJob].data.operation # "ingest")
    => Uploaded = Range(jobs[RunJob].returnvalue.outputPaths)

\* the jobType and operation each admission route writes into the job data
RouteOperations ==
  { <<"lidar", "ingest">>, <<"lidar", "process">>,
    <<"spectral", "ingest">>, <<"spectral", "unmix">>, <<"spectral", "identify">>,
    <<"spectral", "vegetation">>, <<"spectral", "minerals">>,
    <<"sar", "ingest">>, <<"sar", "interferometry">>, <<"sar", "coherence">>,
    <<"sar", "change">>,
    <<"thermal", "ingest">>, <<"thermal", "heatmap">>, <<"thermal", "anomaly">>,
    <<"thermal", "extract">>,
    <<"fusion", "multimodal">>, <<"fusion", "report">> }

\* C34: a job whose type and operation are those an admission route writes
\* never fails with an unknown-operation error of its pipeline.
C34_RoutesEnqueueRunnableJobs ==
  <<jobs[RunJob].data.jobType, jobs[RunJob].data.operation>> \in RouteOperations
    => run.error \notin UnknownOperation

\* C35: when the worker fetches the source of an admitted processing job, it
\* gets the bytes the ingest of the named dataset stored.
C35_SourceResolves == io.op = "download" => io.got = io.sent

\* C35, ingest half: the object an ingest job's sourceUrl names is in the
\* store, with the uploaded bytes, from the moment the job is admitted.
C35_IngestBlobStored ==
  \A i \in 1..Len(admitted) :
    admitted[i].operation = "ingest"
      => GetObject(minio, WorkerBucket, WorkerKey(admitted[i].sourceUrl))
           = admitted[i].stored

\* C36: whenever cancelJob removes a job and returns true, the job had not
\* reached completed or failed at the moment of the removal; a completed or
\* failed job is never removed by cancelJob.
C36_CancelAtomic ==
  [][\A j \in JobIds :
       (/\ jobs[j].state # "absent"
        /\ jobs'[j].state = "absent"
        /\ reply' = Reply("cancelJob", j, "true"))
         => jobs[j].state \notin Finished]_vars

\* the running (or last) attempt has reported progress 100
Reported100 == \E i \in 1..Len(run.calls) : run.calls[i] = Progress(100)

\* C37: a completed job reported 100 as the last progress value of its
\* successful attempt, and an attempt that has reported 100 does not fail:
\* whatever step follows (temp-file clean-up included), it neither enters a
\* catch block nor ends delayed or failed.
C37_HundredIsFinal ==
  /\ jobs[RunJob].state = "completed"
       => /\ Len(ProgressValues) > 0
          /\ ProgressValues[Len(ProgressValues)].n = 100
          /\ jobs[RunJob].progress = 100
  /\ Reported100
       => /\ run.block \in {"try", "idle"}
          /\ run.error = ""
          /\ jobs[RunJob].state \in {"active", "completed"}

C37_Witness ==
  /\ jobs[RunJob].state = "completed"
  /\ Reported100
  /\ run.unlinkFails
  /\ run.calls[Len(run.calls)].kind = "unlink"
  /\ run.temp # {}

\* the sum of the counts a finished getQueueStats call returns
RECURSIVE SumSeq(_)
SumSeq(q) == IF q = <<>> THEN 0 ELSE Head(q) + SumSeq(Tail(q))

\* C38: the five counts a getQueueStats call returns are those of one state
\* the queue was in during the call: they add up to a number of jobs the queue
\* held between the call's first read and its last (no job is removed here), so
\* no job is counted twice or not at all.
C38_ConsistentSnapshot ==
  stats.pc = Len(StatOrder)
    => /\ stats.n0 <= SumSeq(stats.counts)
       /\ SumSeq(stats.counts) <= NumJobs

\* C39: when two updateJob calls on one existing job record, setting
\* different fields, have both returned, the stored record carries both
\* fields' new values.
C39_NoLostUpdate ==
  \A c, e \in Callers :
    (/\ c # e
     /\ upd[c].pc = "done" /\ upd[e].pc = "done"
     /\ upd[c].id = upd[e].id
     /\ upd[c].field # upd[e].field
     /\ upd[c].job.exists /\ upd[e].job.exists)
      => /\ Merge(redis[upd[c].id], upd[c].field, upd[c].value) = redis[upd[c].id]
         /\ Merge(redis[upd[e].id], upd[e].field, upd[e].value) = redis[upd[e].id]

\* C39, second half: an updateJob call whose getJob finds no record returns
\* without writing anything.
C39_MissingIdWritesNothing ==
  [][\A c \in Callers :
       (upd[c].pc = "idle" /\ upd'[c].pc = "done")
         => /\ ~redis[upd'[c].id].exists
            /\ redis' = redis]_vars

\* C40: after any sequence of connects and disconnects, the keys of
\* activeSessions are the tenants with an open session, each mapped to exactly
\* the ids of its open sessions; no key has an empty set.
C40_SessionsTracked ==
  /\ DOMAIN activeSessions = { c.tenant : c \in { x \in connected : x.open } }
  /\ \A t \in DOMAIN activeSessions :
       /\ activeSessions[t] = OpenSessions(t)
       /\ activeSessions[t] # {}

C40_Witness ==
  /\ \E c \in connected : ~c.open /\ c.tenant \notin DOMAIN activeSessions
  /\ \E c \in connected : ~c.open /\ c.tenant \in DOMAIN activeSessions
  /\ \E t \in DOMAIN activeSessions : activeSessions[t] # {}

====
